---- MODULE Spec2Model ----
(***************************************************************************)
(* The clipboard service of src/main.rs: the entries table behind Db, the  *)
(* three request handlers get_entry, add_entry and decrypt, and the two    *)
(* pure functions pad and not_so_constant_time_strcmp they rest on.        *)
(*                                                                         *)
(* A Rust String is modelled as the sequence of its chars, each char being *)
(* its Unicode scalar value; str::len() is the UTF-8 byte length, which    *)
(* differs from the number of chars as soon as a char is not ASCII.        *)
(***************************************************************************)
EXTENDS Integers, Sequences, FiniteSets, TLC

VARIABLES
    entries,    \* the rows of table "entries": a set of Entry records
    pc,         \* pc[p]: where request slot p is in its handler
    req,        \* req[p]: what the request in slot p carries (id, key)
    found,      \* found[p]: the Option<Entry> decrypt got from Db::get_entry
    resp,       \* resp[p]: the response of the handler, once pc[p] = "done"
    accepted,   \* accepted[p]: Some(body) once the INSERT of request p succeeded
    written,    \* history: the bodies of all add requests answered Ok
    early,      \* history: early[id] counts the add requests for id received
                \* while no row with that id was stored
    call        \* one call of pad or not_so_constant_time_strcmp on its own:
                \* its arguments and what it returned (SpecPure)

vars == <<entries, pc, req, found, resp, accepted, written, early, call>>

-----------------------------------------------------------------------------
(* Bounds of the model.                                                    *)

\* longest string (in chars) a client sends in the sequential specification
MaxLen == 2
\* longest string (in chars) a client sends in the concurrent specification
ConcLen == 1
\* number of requests that may be in flight together in SpecConc
NumProcs == 2
\* longest string (in chars) given to pad and to the comparison in SpecPure
PureLen == 2

\* 'a', 'b' (one byte each in UTF-8) and U+00E9 (two bytes)
Alphabet == {97, 98, 233}
\* the concurrent specification sends strings of 'a' only
ConcAlphabet == {97}
\* 'a', U+00E9 (two bytes) and three chars of four bytes, U+10000, U+1D800
\* and U+100000, whose pairwise XORs are a surrogate (U+D800) or above U+10FFFF
PureAlphabet == {97, 233, 65536, 120832, 1048576}
\* ids clients use
Ids == {"x"}
\* values of the i64 column "encrypted" clients send
Flags == {0, 1}

Strs(A, n) == UNION {[1..k -> A] : k \in 0..n}

-----------------------------------------------------------------------------
(* Option<T>: None is the empty sequence, Some(x) the sequence <<x>>.      *)

None == <<>>
Some(x) == <<x>>
IsSome(o) == Len(o) = 1
Unwrap(o) == o[1]

-----------------------------------------------------------------------------
(* Strings and chars.                                                      *)

\* number of bytes of char c in UTF-8
Utf8Len(c) == IF c < 128 THEN 1 ELSE IF c < 2048 THEN 2 ELSE IF c < 65536 THEN 3 ELSE 4

\* str::len(): the length of s in bytes
RECURSIVE ByteLen(_)
ByteLen(s) == IF s = <<>> THEN 0 ELSE Utf8Len(Head(s)) + ByteLen(Tail(s))

\* u32 ^ u32
RECURSIVE BitXor(_, _)
BitXor(x, y) ==
    IF x = 0 THEN y
    ELSE IF y = 0 THEN x
    ELSE (((x % 2) + (y % 2)) % 2) + (2 * BitXor(x \div 2, y \div 2))

\* char::from_u32(x) is Some iff x is a Unicode scalar value
IsChar(x) == x <= 1114111 /\ ~(x >= 55296 /\ x <= 57343)

-----------------------------------------------------------------------------
(* Results of the pure functions and bodies of the responses: records      *)
(* tagged with the variant of Result / Error they stand for.  "Panic" is   *)
(* a Rust panic (index out of bounds, unwrap of None) unwinding out of the *)
(* function.                                                               *)

Ok(v) == [tag |-> "Ok", val |-> v]
InvalidKeyLen(k, d) == [tag |-> "InvalidKeyLen", key_len |-> k, data_len |-> d]
InvalidKey == [tag |-> "InvalidKey"]
EntryAlreadyExists == [tag |-> "EntryAlreadyExists"]
EntryNotFound(id) == [tag |-> "EntryNotFound", id |-> id]
EntryNotEncrypted(id) == [tag |-> "EntryNotEncrypted", id |-> id]
Panic == [tag |-> "Panic"]
NoResp == [tag |-> "None"]

-----------------------------------------------------------------------------
(* fn pad(key, data)                                                       *)

\* the loop of pad from index i (1-based) with `out` built so far
RECURSIVE PadLoop(_, _, _, _)
PadLoop(key_chars, data_chars, i, out) ==
    IF i > Len(key_chars) THEN Ok(out)
    ELSE IF i > Len(data_chars) THEN Panic
    ELSE LET x == BitXor(data_chars[i], key_chars[i])
         IN  IF ~IsChar(x) THEN Panic
             ELSE PadLoop(key_chars, data_chars, i + 1, Append(out, x))

pad(key, data) ==
    IF ByteLen(key) # ByteLen(data)
    THEN InvalidKeyLen(ByteLen(key), ByteLen(data))
    ELSE PadLoop(key, data, 1, <<>>)

-----------------------------------------------------------------------------
(* fn not_so_constant_time_strcmp(a, b); `steps` counts the sleeps.        *)

CmpRes(r, steps) == [tag |-> r.tag, err |-> r, steps |-> steps]

RECURSIVE StrcmpLoop(_, _, _, _)
StrcmpLoop(a, b, i, steps) ==
    IF i > Len(a) THEN CmpRes(Ok(<<>>), steps)
    ELSE IF i > Len(b) THEN CmpRes(Panic, steps + 1)
    ELSE IF a[i] # b[i] THEN CmpRes(InvalidKey, steps + 1)
    ELSE StrcmpLoop(a, b, i + 1, steps + 1)

\* the loop runs over 0..a.len()-1: the last char is never compared
strcmp_skip_last(a, b) ==
    IF ByteLen(a) # ByteLen(b)
    THEN CmpRes(InvalidKeyLen(ByteLen(a), ByteLen(b)), 0)
    ELSE StrcmpLoop(SubSeq(a, 1, Len(a) - 1), b, 1, 0)

\* the length check is missing: the loop runs on whatever it is given
strcmp_no_len(a, b) == StrcmpLoop(a, b, 1, 0)

not_so_constant_time_strcmp(a, b) ==
    IF ByteLen(a) # ByteLen(b)
    THEN CmpRes(InvalidKeyLen(ByteLen(a), ByteLen(b)), 0)
    ELSE StrcmpLoop(a, b, 1, 0)

-----------------------------------------------------------------------------
(* struct Entry and the requests' bodies.                                  *)

Entry(id, content, encrypted, key) ==
    [id |-> id, content |-> content, encrypted |-> encrypted, key |-> key]

\* the bodies a client may POST to /api/add for `id`, with strings from S
Bodies(S, id) ==
    {Entry(id, c, f, k) : c \in S, f \in Flags, k \in {None} \cup {Some(x) : x \in S}}

-----------------------------------------------------------------------------
(* impl Db                                                                 *)

\* SELECT id, content, encrypted, key FROM entries WHERE id = ? ; fetch_one().ok()
Db_get_entry(tbl, id) ==
    LET rows == {r \in tbl : r.id = id}
    IN  IF rows = {} THEN None ELSE Some(CHOOSE r \in rows : TRUE)

\* the table's constraint: id is its primary key
PrimaryKeyTaken(tbl, entry) == \E r \in tbl : r.id = entry.id

\* INSERT OR REPLACE instead of INSERT
Db_add_entry_replace(tbl, entry) ==
    [tbl |-> {r \in tbl : r.id # entry.id} \cup {entry}, res |-> Ok(<<>>)]

\* the result of the statement is dropped: Ok(()) whatever it was
Db_add_entry_ignore(tbl, entry) ==
    IF PrimaryKeyTaken(tbl, entry)
    THEN [tbl |-> tbl, res |-> Ok(<<>>)]
    ELSE [tbl |-> tbl \cup {entry}, res |-> Ok(<<>>)]

\* the INSERT leaves the key column out (it would be set by a later statement)
Db_add_entry_partial(tbl, entry) ==
    IF PrimaryKeyTaken(tbl, entry)
    THEN [tbl |-> tbl, res |-> EntryAlreadyExists]
    ELSE [tbl |-> tbl \cup {Entry(entry.id, entry.content, entry.encrypted, None)},
          res |-> Ok(<<>>)]

\* INSERT INTO entries (id, content, encrypted, key) VALUES (?, ?, ?, ?)
Db_add_entry(tbl, entry) ==
    IF PrimaryKeyTaken(tbl, entry)
    THEN [tbl |-> tbl, res |-> EntryAlreadyExists]
    ELSE [tbl |-> tbl \cup {entry}, res |-> Ok(<<>>)]

-----------------------------------------------------------------------------
(* The handlers' responses as functions of what Db::get_entry returned.    *)

\* the response repeats the row, key included
GetEntryBody_key(o, id) ==
    IF IsSome(o) THEN Ok(Unwrap(o)) ELSE EntryNotFound(id)

\* GET /api/get?<id>
GetEntryBody(o, id) ==
    IF IsSome(o)
    THEN Ok(Entry(Unwrap(o).id, Unwrap(o).content, Unwrap(o).encrypted, None))
    ELSE EntryNotFound(id)

\* POST /api/decrypt?<id> with body {key}
DecryptBody(o, id, key) ==
    IF ~IsSome(o) THEN EntryNotFound(id)
    ELSE IF ~IsSome(Unwrap(o).key) THEN EntryNotEncrypted(id)
    ELSE LET c == not_so_constant_time_strcmp(key, Unwrap(Unwrap(o).key))
         IN  IF c.tag # "Ok" THEN c.err
             ELSE pad(key, Unwrap(o).content)

-----------------------------------------------------------------------------
(* The state machine: request slots 1..NumProcs, each serving one request  *)
(* at a time.                                                              *)

Procs == 1..NumProcs
NoReq == [op |-> "none", id |-> "", key |-> <<>>, fresh |-> FALSE]
NoCall == [st |-> "none", a |-> <<>>, b |-> <<>>, r |-> NoResp, r2 |-> NoResp]

Init ==
    /\ entries = {}
    /\ pc = [p \in Procs |-> "idle"]
    /\ req = [p \in Procs |-> NoReq]
    /\ found = [p \in Procs |-> None]
    /\ resp = [p \in Procs |-> NoResp]
    /\ accepted = [p \in Procs |-> None]
    /\ written = {}
    /\ early = [i \in Ids |-> 0]
    /\ call = NoCall

Stored(id) == \E r \in entries : r.id = id

\* a GET /api/get?<id> request arrives
CallGet(p) ==
    /\ pc[p] = "idle"
    /\ \E id \in Ids :
        req' = [req EXCEPT ![p] = [op |-> "get_entry", id |-> id, key |-> <<>>, fresh |-> FALSE]]
    /\ pc' = [pc EXCEPT ![p] = "get_entry"]
    /\ UNCHANGED <<entries, found, resp, accepted, written, early, call>>

\* a POST /api/add request for `id` arrives; nothing reads its body before
\* the handler's INSERT, which is where the model draws it
CallAdd(p) ==
    /\ pc[p] = "idle"
    /\ \E id \in Ids :
        /\ req' = [req EXCEPT ![p] = [op |-> "add_entry", id |-> id, key |-> <<>>,
                                      fresh |-> ~Stored(id)]]
        /\ early' = [early EXCEPT ![id] = IF Stored(id) THEN @ ELSE @ + 1]
    /\ pc' = [pc EXCEPT ![p] = "add_entry"]
    /\ UNCHANGED <<entries, found, resp, accepted, written, call>>

\* a POST /api/decrypt?<id> request arrives with a key from S
CallDecrypt(p, S) ==
    /\ pc[p] = "idle"
    /\ \E id \in Ids, key \in S :
        req' = [req EXCEPT ![p] = [op |-> "decrypt", id |-> id, key |-> key, fresh |-> FALSE]]
    /\ pc' = [pc EXCEPT ![p] = "decrypt"]
    /\ UNCHANGED <<entries, found, resp, accepted, written, early, call>>

\* handler get_entry
get_entry(p) ==
    /\ pc[p] = "get_entry"
    /\ resp' = [resp EXCEPT ![p] = GetEntryBody(Db_get_entry(entries, req[p].id), req[p].id)]
    /\ pc' = [pc EXCEPT ![p] = "done"]
    /\ UNCHANGED <<entries, req, found, accepted, written, early, call>>

\* handler add_entry, its body drawn from Bodies(S, id)
add_entry(p, S) ==
    /\ pc[p] = "add_entry"
    /\ \E entry \in Bodies(S, req[p].id) :
        LET r == Db_add_entry(entries, entry)
        IN  /\ entries' = r.tbl
            /\ resp' = [resp EXCEPT ![p] = r.res]
            /\ accepted' = [accepted EXCEPT ![p] = IF r.res.tag = "Ok" THEN Some(entry) ELSE None]
            /\ written' = IF r.res.tag = "Ok" THEN written \cup {entry} ELSE written
    /\ pc' = [pc EXCEPT ![p] = "done"]
    /\ UNCHANGED <<req, found, early, call>>

\* handler decrypt, up to the await of Db::get_entry
decrypt_lookup(p) ==
    /\ pc[p] = "decrypt"
    /\ found' = [found EXCEPT ![p] = Db_get_entry(entries, req[p].id)]
    /\ pc' = [pc EXCEPT ![p] = "decrypt_found"]
    /\ UNCHANGED <<entries, req, resp, accepted, written, early, call>>

\* the entry is deleted once it was revealed
decrypt_burn(p) ==
    /\ pc[p] = "decrypt_found"
    /\ resp' = [resp EXCEPT ![p] = DecryptBody(found[p], req[p].id, req[p].key)]
    /\ pc' = [pc EXCEPT ![p] = "done"]
    /\ entries' = {r \in entries : r.id # req[p].id}
    /\ UNCHANGED <<req, found, accepted, written, early, call>>

\* handler decrypt, from the match on entry.key to its response
decrypt(p) ==
    /\ pc[p] = "decrypt_found"
    /\ resp' = [resp EXCEPT ![p] = DecryptBody(found[p], req[p].id, req[p].key)]
    /\ pc' = [pc EXCEPT ![p] = "done"]
    /\ UNCHANGED <<entries, req, found, accepted, written, early, call>>

\* the response is sent and the slot is free again
Reply(p) ==
    /\ pc[p] = "done"
    /\ pc' = [pc EXCEPT ![p] = "idle"]
    /\ req' = [req EXCEPT ![p] = NoReq]
    /\ found' = [found EXCEPT ![p] = None]
    /\ resp' = [resp EXCEPT ![p] = NoResp]
    /\ accepted' = [accepted EXCEPT ![p] = None]
    /\ UNCHANGED <<entries, written, early, call>>

\* one request at a time, strings of up to MaxLen chars over Alphabet
Next ==
    \E p \in {1} :
        \/ CallGet(p)
        \/ CallAdd(p)
        \/ CallDecrypt(p, Strs(Alphabet, MaxLen))
        \/ get_entry(p)
        \/ add_entry(p, Strs(Alphabet, MaxLen))
        \/ decrypt_lookup(p)
        \/ decrypt(p)
        \/ Reply(p)

Spec == Init /\ [][Next]_vars

\* up to NumProcs requests in flight, strings of up to ConcLen chars
NextConc ==
    \E p \in Procs :
        \/ CallGet(p)
        \/ CallAdd(p)
        \/ CallDecrypt(p, Strs(ConcAlphabet, ConcLen))
        \/ get_entry(p)
        \/ add_entry(p, Strs(ConcAlphabet, ConcLen))
        \/ decrypt_lookup(p)
        \/ decrypt(p)
        \/ Reply(p)

SpecConc == Init /\ [][NextConc]_vars

-----------------------------------------------------------------------------
(* pad and not_so_constant_time_strcmp on their own: the arguments are     *)
(* drawn in the initial state, each action is one call.                    *)

SysVars == <<entries, pc, req, found, resp, accepted, written, early>>

InitPure ==
    /\ entries = {}
    /\ pc = [p \in Procs |-> "idle"]
    /\ req = [p \in Procs |-> NoReq]
    /\ found = [p \in Procs |-> None]
    /\ resp = [p \in Procs |-> NoResp]
    /\ accepted = [p \in Procs |-> None]
    /\ written = {}
    /\ early = [i \in Ids |-> 0]
    /\ \E x, y \in Strs(PureAlphabet, PureLen) :
          call = [st |-> "args", a |-> x, b |-> y, r |-> NoResp, r2 |-> NoResp]

\* pad(key, data) with key = call.a and data = call.b
ApplyPad ==
    /\ call.st = "args"
    /\ call' = [call EXCEPT !.st = "pad", !.r = pad(call.a, call.b)]
    /\ UNCHANGED SysVars

\* pad(key, ct) on the output ct of the first call, as tests::one_time_pad
ApplyPadAgain ==
    /\ call.st = "pad"
    /\ call.r.tag = "Ok"
    /\ call' = [call EXCEPT !.st = "pad2", !.r2 = pad(call.a, call.r.val)]
    /\ UNCHANGED SysVars

\* not_so_constant_time_strcmp(a, b)
ApplyStrcmp ==
    /\ call.st = "args"
    /\ call' = [call EXCEPT !.st = "strcmp",
                            !.r = not_so_constant_time_strcmp(call.a, call.b)]
    /\ UNCHANGED SysVars

NextPure == ApplyPad \/ ApplyPadAgain \/ ApplyStrcmp

SpecPure == InitPure /\ [][NextPure]_vars

-----------------------------------------------------------------------------
(* Vocabulary of the properties.                                           *)

\* the protected flag of an entry is its column "encrypted"
Protected(e) == e.encrypted # 0
\* the rows stored under id
Rows(id) == {r \in entries : r.id = id}
\* e is as the data model wants it: flag set iff a key is there, and the key
\* as long as the content, in chars and in bytes
WellFormed(e) ==
    /\ e.encrypted \in {0, 1}
    /\ Protected(e) <=> IsSome(e.key)
    /\ IsSome(e.key) =>
          /\ Len(Unwrap(e.key)) = Len(e.content)
          /\ ByteLen(Unwrap(e.key)) = ByteLen(e.content)
\* request slot p holds the response of handler op
Done(p, op) == pc[p] = "done" /\ req[p].op = op

-----------------------------------------------------------------------------
\* C1: decrypt answers with content only if the presented key equals the key
\* stored with the entry, and a presented key of the same length (str::len)
\* as the stored key that differs from it is answered with InvalidKey, a
\* response that carries no content.
RevealGating ==
    \A p \in Procs : Done(p, "decrypt") =>
        /\ resp[p].tag = "Ok" =>
              \E e \in Rows(req[p].id) : e.key = Some(req[p].key)
        /\ \A e \in Rows(req[p].id) :
              (/\ IsSome(e.key)
               /\ ByteLen(Unwrap(e.key)) = ByteLen(req[p].key)
               /\ Unwrap(e.key) # req[p].key)
              => resp[p] = InvalidKey

\* a wrong key of the stored key's length, not empty, was answered
RevealGatingWitness ==
    \E p \in Procs : \E e \in Rows(req[p].id) :
        /\ Done(p, "decrypt")
        /\ IsSome(e.key)
        /\ req[p].key # <<>>
        /\ ByteLen(Unwrap(e.key)) = ByteLen(req[p].key)
        /\ Unwrap(e.key) # req[p].key
        /\ resp[p] = InvalidKey

\* C2: once write(id, content, key) was accepted (key as long as content),
\* decrypt of id with that key returns exactly the content given to write.
RoundTrip ==
    \A p \in Procs : Done(p, "decrypt") =>
        \A w \in written :
            (w.id = req[p].id /\ WellFormed(w) /\ w.key = Some(req[p].key))
            => resp[p] = Ok(w.content)

\* C3: the response of get_entry for a protected entry has no content field.
FetchRedactsContent ==
    \A p \in Procs : (Done(p, "get_entry") /\ resp[p].tag = "Ok") =>
        \A e \in Rows(req[p].id) :
            (WellFormed(e) /\ Protected(e) /\ e.content # <<>>)
            => "content" \notin DOMAIN resp[p].val

\* C4: the response of get_entry never carries a key, and for an unprotected
\* entry its content is the content the accepted add request gave.
FetchHidesKey ==
    \A p \in Procs : (Done(p, "get_entry") /\ resp[p].tag = "Ok") =>
        /\ resp[p].val.key = None
        /\ \A e \in Rows(req[p].id) :
              ~Protected(e) =>
                  /\ e \in written
                  /\ resp[p].val.content = e.content

\* an entry stored with a key and a content, flag unset, was fetched
FetchHidesKeyWitness ==
    \E p \in Procs : \E e \in Rows(req[p].id) :
        /\ Done(p, "get_entry")
        /\ resp[p].tag = "Ok"
        /\ ~Protected(e)
        /\ IsSome(e.key)
        /\ e.content # <<>>

\* C5: decrypt of a protected entry with a key that is not the stored key,
\* of whatever length, is answered with InvalidKey and nothing else.
MismatchIsInvalidKey ==
    \A p \in Procs : Done(p, "decrypt") =>
        \A e \in Rows(req[p].id) :
            (WellFormed(e) /\ Protected(e) /\ Unwrap(e.key) # req[p].key)
            => resp[p] = InvalidKey

\* C6: the add_entry handler, run for an id that is stored, answers
\* EntryAlreadyExists and leaves the table as it was.
CreateOnce ==
    [][\A p \in Procs :
          (pc[p] = "add_entry" /\ pc'[p] = "done" /\ Stored(req[p].id))
          => (resp'[p] = EntryAlreadyExists /\ entries' = entries)]_vars

\* an add request for a stored id was answered
CreateOnceWitness ==
    \E p \in Procs :
        /\ Done(p, "add_entry")
        /\ ~req[p].fresh
        /\ resp[p] = EntryAlreadyExists
        /\ Stored(req[p].id)

\* C7: of two add requests for one id both answered, never both succeeded,
\* the row stored is the body of the one that did, and when the two were the
\* only ones received while the id was not yet stored, exactly one succeeded
\* and the other got EntryAlreadyExists.
ConcurrentInserts ==
    \A p, q \in Procs :
        (p # q /\ Done(p, "add_entry") /\ Done(q, "add_entry") /\ req[p].id = req[q].id)
        => /\ ~(resp[p].tag = "Ok" /\ resp[q].tag = "Ok")
           /\ resp[p].tag = "Ok" =>
                 (IsSome(accepted[p]) /\ Rows(req[p].id) = {Unwrap(accepted[p])})
           /\ (req[p].fresh /\ req[q].fresh /\ early[req[p].id] = 2) =>
                 \/ resp[p].tag = "Ok" /\ resp[q] = EntryAlreadyExists
                 \/ resp[q].tag = "Ok" /\ resp[p] = EntryAlreadyExists

\* two add requests for one id, both received before the id was stored,
\* were both answered
ConcurrentInsertsWitness ==
    \E p, q \in Procs :
        /\ p # q
        /\ Done(p, "add_entry") /\ Done(q, "add_entry")
        /\ req[p].id = req[q].id
        /\ req[p].fresh /\ req[q].fresh
        /\ early[req[p].id] = 2
        /\ resp[p].tag = "Ok"
        /\ resp[q] = EntryAlreadyExists

\* C8: an accepted add request with a key stores pad(key, content) with the
\* protected flag set; one without a key stores its content as given with
\* the flag unset.
WriteEncodes ==
    \A p \in Procs : (Done(p, "add_entry") /\ IsSome(accepted[p])) =>
        LET b == Unwrap(accepted[p])
        IN  WellFormed(b) => \E e \in Rows(req[p].id) :
                IF IsSome(b.key)
                THEN pad(Unwrap(b.key), b.content) = Ok(e.content) /\ e.encrypted = 1
                ELSE e.content = b.content /\ e.encrypted = 0

\* C9: an add request whose key and content differ in length is answered
\* with InvalidKeyLen carrying both lengths, and stores nothing.
WriteRejectsKeyLen ==
    \A p \in Procs : (Done(p, "add_entry") /\ IsSome(accepted[p])) =>
        LET b == Unwrap(accepted[p])
        IN  (/\ IsSome(b.key)
             /\ Protected(b)
             /\ Len(Unwrap(b.key)) # Len(b.content)
             /\ ByteLen(Unwrap(b.key)) # ByteLen(b.content))
            => /\ resp[p] = InvalidKeyLen(ByteLen(Unwrap(b.key)), ByteLen(b.content))
               /\ Rows(req[p].id) = {}

\* C10: every stored entry has a key iff its flag is set, and the key of a
\* protected entry is as long as its content.
EntryInvariant ==
    \A e \in entries :
        /\ IsSome(e.key) <=> Protected(e)
        /\ Protected(e) =>
              (IsSome(e.key) /\ ByteLen(Unwrap(e.key)) = ByteLen(e.content))

-----------------------------------------------------------------------------
(* Vocabulary of the properties of pad and of the comparison.              *)

\* a and b are equally long in chars and in bytes
SameLen(a, b) == Len(a) = Len(b) /\ ByteLen(a) = ByteLen(b)
\* every position of key and data XORs to a Unicode scalar value
XorLegal(key, data) ==
    \A i \in 1..Len(key) : i <= Len(data) => IsChar(BitXor(data[i], key[i]))

\* C11: for key and data of equal length (whose XOR is legal at every
\* position), pad(key, data) succeeds, and pad(key, pad(key, data)) succeeds
\* and is data.
PadInvolution ==
    (call.st \in {"pad", "pad2"} /\ SameLen(call.a, call.b) /\ XorLegal(call.a, call.b))
    => /\ call.r.tag = "Ok"
       /\ call.st = "pad2" => call.r2 = Ok(call.b)

\* C12: pad fails with InvalidKeyLen, carrying both lengths, iff key and
\* data differ in their number of chars, the unit the XOR runs on; when it
\* succeeds its output has as many chars as data.
PadLengthCheck ==
    call.st = "pad" =>
        /\ call.r.tag = "InvalidKeyLen" <=> Len(call.a) # Len(call.b)
        /\ call.r.tag = "Ok" => Len(call.r.val) = Len(call.b)

\* C14: for two keys of equal length the comparison sleeps once per
\* position, as many times whether and wherever they differ.
FullScan ==
    (call.st = "strcmp" /\ SameLen(call.a, call.b))
    => call.r.steps = Len(call.a)

\* C16: when the XOR at some position is no Unicode scalar value, pad
\* returns an InvalidOutput error.
InvalidOutputIsError ==
    (call.st = "pad" /\ SameLen(call.a, call.b) /\ ~XorLegal(call.a, call.b))
    => call.r.tag = "InvalidOutput"

\* C18: the comparison returns Ok, InvalidKey or InvalidKeyLen, never
\* indexes past the end of a char sequence, and returns Ok iff a = b.
StrcmpTotal ==
    call.st = "strcmp" =>
        /\ call.r.tag \in {"Ok", "InvalidKey", "InvalidKeyLen"}
        /\ call.r.tag = "Ok" <=> call.a = call.b

\* two strings of equal byte length and different numbers of chars, the
\* first the longer in chars, were compared
StrcmpTotalWitness ==
    /\ call.st = "strcmp"
    /\ ByteLen(call.a) = ByteLen(call.b)
    /\ Len(call.a) > Len(call.b)
    /\ call.r.tag = "InvalidKey"

-----------------------------------------------------------------------------
\* C13: decrypt of an id that is not stored answers EntryNotFound; decrypt
\* of a stored entry that is not protected answers EntryNotEncrypted,
\* whatever the key presented.
RevealErrors ==
    \A p \in Procs : Done(p, "decrypt") =>
        /\ Rows(req[p].id) = {} => resp[p] = EntryNotFound(req[p].id)
        /\ \A e \in Rows(req[p].id) :
              ~Protected(e) => resp[p] = EntryNotEncrypted(req[p].id)

\* C15: no step removes or changes a row, the steps of get_entry and decrypt
\* leave the table as it is, and a fetch of an id written before finds the
\* id, content and flag that were written.
EntriesPermanent ==
    /\ [](\A p \in Procs : Done(p, "get_entry") =>
            \A w \in written :
                w.id = req[p].id
                => resp[p] = Ok(Entry(w.id, w.content, w.encrypted, None)))
    /\ [][/\ entries \subseteq entries'
          /\ \A p \in Procs :
                (pc[p] \in {"get_entry", "decrypt", "decrypt_found"} /\ pc'[p] # pc[p])
                => entries' = entries]_vars

\* a reveal succeeded and the entry it revealed is still stored
EntriesPermanentWitness ==
    \E p \in Procs :
        /\ Done(p, "decrypt")
        /\ resp[p].tag = "Ok"
        /\ resp[p].val # <<>>
        /\ Rows(req[p].id) # {}
        /\ Rows(req[p].id) \subseteq written

\* C17: what a lookup hands to get_entry or decrypt, with add requests in
\* flight, is nothing (EntryNotFound) or a whole entry as one accepted add
\* request gave it: id, content, flag and key of the same body.
ConsistentLookup ==
    \A p \in Procs :
        /\ (req[p].op = "decrypt" /\ pc[p] \in {"decrypt_found", "done"} /\ IsSome(found[p]))
           => (Unwrap(found[p]) \in written /\ Unwrap(found[p]).id = req[p].id)
        /\ Done(p, "get_entry") =>
              \/ resp[p] = EntryNotFound(req[p].id)
              \/ \E w \in written :
                    /\ w.id = req[p].id
                    /\ resp[p] = Ok(Entry(w.id, w.content, w.encrypted, None))

\* a lookup found the entry of an add request that is not yet replied to
ConsistentLookupWitness ==
    \E p, q \in Procs :
        /\ p # q
        /\ Done(q, "add_entry")
        /\ resp[q].tag = "Ok"
        /\ req[p].op = "decrypt"
        /\ pc[p] = "decrypt_found"
        /\ found[p] = accepted[q]
        /\ IsSome(Unwrap(found[p]).key)

====
